---- MODULE Spec2Model ----
(***************************************************************************)
(* The sidecar supervisor of src-tauri/src/lib.rs (desktop build):         *)
(* setup builds the child's environment and spawns the sidecar, a          *)
(* background task drains the child's event stream, and kill_sidecar       *)
(* tears the child down from the window-close handler, the run-event       *)
(* callback (ExitRequested, Exit) and the drain task (Terminated).         *)
(***************************************************************************)
EXTENDS Integers, Sequences, FiniteSets, TLC

VARIABLES
    hostEnv,        \* the application's own process environment: name -> EnvVal
    cfg,            \* facts fixed for one run: target platform and what the OS answers in setup
    script,         \* the events the child process will still produce if it lives
    phase,          \* "setup" | "running" | "exiting" | "exited" | "aborted"
    managed,        \* TRUE once app.manage(SidecarState(..)) has run
    sidecar,        \* content of SidecarState's Mutex<Option<CommandChild>>: <<>> or <<pid>>
    mutex,          \* owner of the SidecarState mutex: "none" | "main" | "drain"
    pc,             \* per thread, the position inside kill_sidecar (or outside it)
    child,          \* per thread, the local `child` bound by `if let Some(child)`
    mainEvt,        \* the event the main thread is handling
    windows_open,   \* windows that can still raise CloseRequested
    exit_requested, \* TRUE once the window handler has called app_handle.exit(0)
    calls,          \* kill_sidecar invocations so far, per trigger
    kills,          \* kill requests issued to the OS, in order
    proc,           \* the child process: st, code, signal
    childEnv,       \* the environment the child was spawned with: name -> EnvVal
    rx,             \* events waiting in the receiver of the child's event stream
    rxClosed,       \* TRUE once every sender of the stream is gone
    emitted,        \* every event put on the stream, in order
    consumed,       \* every event rx.recv() returned to the drain task, in order
    diag            \* diagnostic records printed by the drain task, in order

vars == <<hostEnv, cfg, script, phase, managed, sidecar, mutex, pc, child, mainEvt,
          windows_open, exit_requested, calls, kills, proc, childEnv, rx, rxClosed,
          emitted, consumed, diag>>

----------------------------------------------------------------------------
(* Bounds of the model *)

MaxEvents == 2      \* longest output script of the child, Terminated not counted
MaxWindows == 1     \* windows of the application

----------------------------------------------------------------------------
(* Values *)

Threads == {"main", "drain"}
Triggers == {"CloseRequested", "ExitRequested", "Exit", "Terminated"}

CR == 13
LF == 10
REPLACEMENT_CHARACTER == 65533
ParentPid == 4242
ChildPid == 7001

EnvNames == {"TIPTUNE_PARENT_PID", "TIPTUNE_WEB_HOST", "TIPTUNE_WEB_PORT",
             "TIPTUNE_LOG_LEVEL", "TIPTUNE_DEFAULT_LOG_PATH"}

\* An environment value: not set, set to valid Unicode, or set to other bytes.
Unset == [kind |-> "unset", val |-> <<>>]
Unicode(v) == [kind |-> "unicode", val |-> v]
NotUnicode(v) == [kind |-> "bytes", val |-> v]

LogLevelInputs == {Unset, Unicode(<<"DEBUG">>), NotUnicode(<<"DEBUG\\xFF">>)}
LogPathInputs == {Unset, Unicode(<<"ext", "/", "sidecar.log">>),
                  NotUnicode(<<"ext\\xFF", "/", "sidecar.log">>)}
DataDir == <<"appdata", "TipTune">>

HostEnvOf(level, path) ==
    [n \in EnvNames |->
        IF n = "TIPTUNE_LOG_LEVEL" THEN level
        ELSE IF n = "TIPTUNE_DEFAULT_LOG_PATH" THEN path
        ELSE Unset]

Configs ==
    [windows : BOOLEAN,                     \* cfg(windows)
     app_data_dir : {<<>>, <<DataDir>>},    \* app.path().app_data_dir(): Err or Ok(dir)
     create_dir_all : BOOLEAN,              \* whether fs::create_dir_all succeeds
     sidecar : BOOLEAN,                     \* whether shell().sidecar("TipTune") resolves
     spawn : BOOLEAN]                       \* whether spawn() succeeds

\* Events of the child's stream.
Stdout(bytes) == [kind |-> "Stdout", data |-> bytes]
Stderr(bytes) == [kind |-> "Stderr", data |-> bytes]
Error(text) == [kind |-> "Error", data |-> text]
Other == [kind |-> "Other", data |-> <<>>]
Terminated(code, signal) == [kind |-> "Terminated", data |-> <<code, signal>>]

\* Sampled events: "a", "b\r\n", and a line that starts with \n, holds a byte that is
\* not UTF-8 and ends with \r.
EventSamples == {Stdout(<<97>>), Stderr(<<98, CR, LF>>), Stdout(<<LF, 255, CR>>),
                 Error(<<101>>), Other}

SeqsUpTo(S, n) == UNION {[1..k -> S] : k \in 0..n}
Scripts == SeqsUpTo(EventSamples, MaxEvents)

\* Two short scripts that between them hold every kind of event.
DemoScripts == {<<Stdout(<<97>>), Error(<<101>>)>>, <<Stderr(<<98, CR, LF>>), Other>>}

----------------------------------------------------------------------------
(* Environment Builder and Process Launcher: the setup closure *)

\* env::var(name).is_err(): the variable is not set, or is not valid Unicode.
env_var_is_err(name) == hostEnv[name].kind # "unicode"

\* PathBuf::join, on a path held as its components.
Join(dir, name) == Append(dir, name)

RECURSIVE to_string_lossy(_)
to_string_lossy(p) ==
    IF Len(p) = 0 THEN <<>>
    ELSE IF Len(p) = 1 THEN <<p[1]>>
    ELSE <<p[1], "/">> \o to_string_lossy(Tail(p))

\* let mut sidecar_log_path = None; if let Ok(data_dir) = .. { create_dir_all; Some(join) }
sidecar_log_path ==
    IF cfg.app_data_dir # <<>>
    THEN <<Join(cfg.app_data_dir[1], "tiptune-sidecar.log")>>
    ELSE <<>>

BaseCommand ==
    << <<"TIPTUNE_PARENT_PID", <<ToString(ParentPid)>> >>,
       <<"TIPTUNE_WEB_HOST", <<"127.0.0.1">> >>,
       <<"TIPTUNE_WEB_PORT", <<"8765">> >> >>

WithLogLevel(cmd) ==
    IF env_var_is_err("TIPTUNE_LOG_LEVEL")
    THEN Append(cmd, <<"TIPTUNE_LOG_LEVEL", <<"INFO">> >>)
    ELSE cmd

WithLogPath(cmd) ==
    IF env_var_is_err("TIPTUNE_DEFAULT_LOG_PATH") /\ sidecar_log_path # <<>>
    THEN Append(cmd, <<"TIPTUNE_DEFAULT_LOG_PATH", to_string_lossy(sidecar_log_path[1])>>)
    ELSE cmd

sidecar_command == WithLogPath(WithLogLevel(BaseCommand))

\* The environment of the spawned child: the entries set on the command (the last
\* one for a name wins) over the environment inherited from the application.
SpawnEnv(cmd) ==
    [n \in EnvNames |->
        LET at == {i \in 1..Len(cmd) : cmd[i][1] = n} IN
        IF at = {} THEN hostEnv[n]
        ELSE Unicode(cmd[CHOOSE i \in at : \A j \in at : j <= i][2])]

Running == [st |-> "running", code |-> -1, signal |-> -1]
NoProcess == [st |-> "none", code |-> -1, signal |-> -1]
Dead(code, signal) == [st |-> "dead", code |-> code, signal |-> signal]

NoCalls == [t \in Triggers |-> 0]

InitWith(levels, paths, configs, scripts) ==
    /\ hostEnv \in {HostEnvOf(l, p) : l \in levels, p \in paths}
    /\ cfg \in configs
    /\ script \in scripts
    /\ phase = "setup"
    /\ managed = FALSE
    /\ sidecar = <<>>
    /\ mutex = "none"
    /\ pc = [t \in Threads |-> IF t = "main" THEN "idle" ELSE "unspawned"]
    /\ child = [t \in Threads |-> <<>>]
    /\ mainEvt = "none"
    /\ windows_open = MaxWindows
    /\ exit_requested = FALSE
    /\ calls = NoCalls
    /\ kills = <<>>
    /\ proc = NoProcess
    /\ childEnv = [n \in EnvNames |-> Unset]
    /\ rx = <<>>
    /\ rxClosed = FALSE
    /\ emitted = <<>>
    /\ consumed = <<>>
    /\ diag = <<>>

\* A run with nothing set in the environment, on every platform and launch outcome.
Init == InitWith({Unset}, {Unset}, Configs, DemoScripts)

\* Every sampled environment and every answer of the OS in setup, non-Windows build.
InitEnv == InitWith(LogLevelInputs, LogPathInputs, {c \in Configs : ~c.windows}, DemoScripts)

\* A launch, with nothing set in the environment, of a child that produces any script
\* of up to MaxEvents events.
InitDrain ==
    InitWith({Unset}, {Unset},
             {c \in Configs : ~c.windows /\ c.app_data_dir # <<>> /\ c.create_dir_all},
             Scripts)

\* Mutant: a failed launch is swallowed and the application runs without a sidecar.
SetupFails_continues ==
    /\ phase = "setup"
    /\ ~(cfg.sidecar /\ cfg.spawn)
    /\ phase' = "running"
    /\ managed' = TRUE
    /\ UNCHANGED <<hostEnv, cfg, script, sidecar, mutex, pc, child, mainEvt,
                   windows_open, exit_requested, calls, kills, proc, childEnv, rx,
                   rxClosed, emitted, consumed, diag>>

\* sidecar("TipTune")? or spawn()? fails: the closure returns the error.
SetupFails ==
    /\ phase = "setup"
    /\ ~(cfg.sidecar /\ cfg.spawn)
    /\ phase' = "aborted"
    /\ UNCHANGED <<hostEnv, cfg, script, managed, sidecar, mutex, pc, child, mainEvt,
                   windows_open, exit_requested, calls, kills, proc, childEnv, rx,
                   rxClosed, emitted, consumed, diag>>

\* The closure runs to Ok(()): the child is spawned, its handle stored, the drain
\* task started.
SetupOk ==
    /\ phase = "setup"
    /\ cfg.sidecar /\ cfg.spawn
    /\ childEnv' = SpawnEnv(sidecar_command)
    /\ proc' = Running
    /\ managed' = TRUE
    /\ sidecar' = <<ChildPid>>
    /\ pc' = [pc EXCEPT !["drain"] = "recv"]
    /\ phase' = "running"
    /\ UNCHANGED <<hostEnv, cfg, script, mutex, child, mainEvt, windows_open,
                   exit_requested, calls, kills, rx, rxClosed, emitted, consumed, diag>>

----------------------------------------------------------------------------
(* Termination Sequencer: kill_sidecar, run by the thread t *)

AppAlive == phase \in {"running", "exiting"}

\* What made thread t call kill_sidecar.
Trigger(t) == IF t = "main" THEN mainEvt ELSE "Terminated"

\* Mutant: the handle is copied out and left in the slot.
take_leaves_handle(opt) == opt

\* Option::take: the value is moved out and None is left in the slot.
take(opt) == <<>>

\* Mutant: the kill branch is entered whether or not a handle was found.
AfterTake_always_kills(opt) == "kill"

\* `if let Some(child) = ..`: the kill block runs only when a handle was taken.
AfterTake(opt) == IF opt # <<>> THEN "kill" ELSE "unlock"

\* The kill of lines 23-36: taskkill on the pid and its tree, or child.kill().
KillRequest(c, by) ==
    [child |-> c,
     how |-> IF cfg.windows THEN "taskkill /PID /T /F" ELSE "kill",
     by |-> by]

\* The process after a kill request that took effect.
Killed == IF cfg.windows THEN Dead(1, -1) ELSE Dead(-1, 9)

\* app.state::<SidecarState>().0.lock(): blocks while another thread holds the guard.
\* No code that runs under the guard can panic, so the mutex is never poisoned and
\* lock() always returns Ok; the state is managed whenever a handler can run.
Lock(t) ==
    /\ AppAlive
    /\ pc[t] = "lock"
    /\ managed
    /\ mutex = "none"
    /\ mutex' = t
    /\ pc' = [pc EXCEPT ![t] = "take"]
    /\ UNCHANGED <<hostEnv, cfg, script, phase, managed, sidecar, child, mainEvt,
                   windows_open, exit_requested, calls, kills, proc, childEnv, rx,
                   rxClosed, emitted, consumed, diag>>

\* if let Some(child) = guard.take()
Take(t) ==
    /\ AppAlive
    /\ pc[t] = "take"
    /\ mutex = t
    /\ child' = [child EXCEPT ![t] = sidecar]
    /\ sidecar' = take(sidecar)
    /\ pc' = [pc EXCEPT ![t] = AfterTake(sidecar)]
    /\ UNCHANGED <<hostEnv, cfg, script, phase, managed, mutex, mainEvt, windows_open,
                   exit_requested, calls, kills, proc, childEnv, rx, rxClosed, emitted,
                   consumed, diag>>

\* Mutant: the kill's result is unwrapped, so a failed kill panics under the guard.
Kill_unwraps(t) ==
    /\ AppAlive
    /\ pc[t] = "kill"
    /\ kills' = Append(kills, KillRequest(child[t], Trigger(t)))
    /\ \E ok \in BOOLEAN :
          /\ proc' = IF ok /\ proc.st = "running" THEN Killed ELSE proc
          /\ pc' = [pc EXCEPT ![t] = IF ok THEN "unlock" ELSE "panicked"]
    /\ child' = [child EXCEPT ![t] = <<>>]
    /\ UNCHANGED <<hostEnv, cfg, script, phase, managed, sidecar, mutex, mainEvt,
                   windows_open, exit_requested, calls, childEnv, rx, rxClosed, emitted,
                   consumed, diag>>

\* Mutant: a kill that fails puts the handle back for a later attempt.
Kill_restores_on_failure(t) ==
    /\ AppAlive
    /\ pc[t] = "kill"
    /\ kills' = Append(kills, KillRequest(child[t], Trigger(t)))
    /\ \E ok \in BOOLEAN :
          /\ proc' = IF ok /\ proc.st = "running" THEN Killed ELSE proc
          /\ sidecar' = IF ok THEN sidecar ELSE child[t]
    /\ child' = [child EXCEPT ![t] = <<>>]
    /\ pc' = [pc EXCEPT ![t] = "unlock"]
    /\ UNCHANGED <<hostEnv, cfg, script, phase, managed, mutex, mainEvt,
                   windows_open, exit_requested, calls, childEnv, rx, rxClosed, emitted,
                   consumed, diag>>

\* The kill request, its result dropped by `let _ =`; it may take effect or fail.
\* The guard is still in scope: the mutex stays locked.
Kill(t) ==
    /\ AppAlive
    /\ pc[t] = "kill"
    /\ kills' = Append(kills, KillRequest(child[t], Trigger(t)))
    /\ \E ok \in BOOLEAN :
          proc' = IF ok /\ proc.st = "running" THEN Killed ELSE proc
    /\ child' = [child EXCEPT ![t] = <<>>]
    /\ pc' = [pc EXCEPT ![t] = "unlock"]
    /\ UNCHANGED <<hostEnv, cfg, script, phase, managed, sidecar, mutex, mainEvt,
                   windows_open, exit_requested, calls, childEnv, rx, rxClosed, emitted,
                   consumed, diag>>

\* Mutant: kill_sidecar returns with the guard leaked, the mutex still locked.
Unlock_leaks_guard(t) ==
    /\ AppAlive
    /\ pc[t] = "unlock"
    /\ mutex = t
    /\ pc' = [pc EXCEPT ![t] = "ret"]
    /\ UNCHANGED <<hostEnv, cfg, script, phase, managed, sidecar, mutex, child, mainEvt,
                   windows_open, exit_requested, calls, kills, proc, childEnv, rx,
                   rxClosed, emitted, consumed, diag>>

\* End of the `if let Ok(mut guard)` block: the guard is dropped, kill_sidecar returns.
Unlock(t) ==
    /\ AppAlive
    /\ pc[t] = "unlock"
    /\ mutex = t
    /\ mutex' = "none"
    /\ pc' = [pc EXCEPT ![t] = "ret"]
    /\ UNCHANGED <<hostEnv, cfg, script, phase, managed, sidecar, child, mainEvt,
                   windows_open, exit_requested, calls, kills, proc, childEnv, rx,
                   rxClosed, emitted, consumed, diag>>

----------------------------------------------------------------------------
(* Lifecycle Event Bridge: the handlers registered with the host, main thread *)

\* Mutant: the window handler requests the exit first and kills the sidecar after.
on_window_event_exit_first ==
    /\ phase = "running"
    /\ pc["main"] = "idle"
    /\ windows_open > 0
    /\ mainEvt' = "CloseRequested"
    /\ exit_requested' = TRUE
    /\ pc' = [pc EXCEPT !["main"] = "lock"]
    /\ calls' = [calls EXCEPT !["CloseRequested"] = @ + 1]
    /\ UNCHANGED <<hostEnv, cfg, script, phase, managed, sidecar, mutex, child,
                   windows_open, kills, proc, childEnv, rx, rxClosed,
                   emitted, consumed, diag>>

\* Mutant: the window handler requests the exit without killing the sidecar first.
on_window_event_without_kill ==
    /\ phase = "running"
    /\ pc["main"] = "idle"
    /\ windows_open > 0
    /\ mainEvt' = "CloseRequested"
    /\ pc' = [pc EXCEPT !["main"] = "ret"]
    /\ UNCHANGED <<hostEnv, cfg, script, phase, managed, sidecar, mutex, child,
                   windows_open, exit_requested, calls, kills, proc, childEnv, rx,
                   rxClosed, emitted, consumed, diag>>

\* on_window_event, WindowEvent::CloseRequested: kill_sidecar(..)
on_window_event ==
    /\ phase = "running"
    /\ pc["main"] = "idle"
    /\ windows_open > 0
    /\ mainEvt' = "CloseRequested"
    /\ pc' = [pc EXCEPT !["main"] = "lock"]
    /\ calls' = [calls EXCEPT !["CloseRequested"] = @ + 1]
    /\ UNCHANGED <<hostEnv, cfg, script, phase, managed, sidecar, mutex, child,
                   windows_open, exit_requested, kills, proc, childEnv, rx, rxClosed,
                   emitted, consumed, diag>>

\* .. then window.app_handle().exit(0); the close is not prevented.
on_window_event_exit ==
    /\ phase = "running"
    /\ pc["main"] = "ret"
    /\ mainEvt = "CloseRequested"
    /\ exit_requested' = TRUE
    /\ windows_open' = windows_open - 1
    /\ mainEvt' = "none"
    /\ pc' = [pc EXCEPT !["main"] = "idle"]
    /\ UNCHANGED <<hostEnv, cfg, script, phase, managed, sidecar, mutex, child, calls,
                   kills, proc, childEnv, rx, rxClosed, emitted, consumed, diag>>

\* Mutant: the callback matches RunEvent::Exit only and lets ExitRequested pass.
run_ExitRequested_ignored ==
    /\ phase = "running"
    /\ pc["main"] = "idle"
    /\ mainEvt' = "ExitRequested"
    /\ pc' = [pc EXCEPT !["main"] = "ret"]
    /\ UNCHANGED <<hostEnv, cfg, script, phase, managed, sidecar, mutex, child,
                   windows_open, exit_requested, calls, kills, proc, childEnv, rx,
                   rxClosed, emitted, consumed, diag>>

\* app.run callback, RunEvent::ExitRequested: kill_sidecar(app_handle)
run_ExitRequested ==
    /\ phase = "running"
    /\ pc["main"] = "idle"
    /\ mainEvt' = "ExitRequested"
    /\ pc' = [pc EXCEPT !["main"] = "lock"]
    /\ calls' = [calls EXCEPT !["ExitRequested"] = @ + 1]
    /\ UNCHANGED <<hostEnv, cfg, script, phase, managed, sidecar, mutex, child,
                   windows_open, exit_requested, kills, proc, childEnv, rx, rxClosed,
                   emitted, consumed, diag>>

\* The callback returns without preventing the exit: the event loop winds down.
run_ExitRequested_return ==
    /\ phase = "running"
    /\ pc["main"] = "ret"
    /\ mainEvt = "ExitRequested"
    /\ phase' = "exiting"
    /\ mainEvt' = "none"
    /\ pc' = [pc EXCEPT !["main"] = "idle"]
    /\ UNCHANGED <<hostEnv, cfg, script, managed, sidecar, mutex, child, windows_open,
                   exit_requested, calls, kills, proc, childEnv, rx, rxClosed, emitted,
                   consumed, diag>>

\* app.run callback, RunEvent::Exit: kill_sidecar(app_handle)
run_Exit ==
    /\ phase = "exiting"
    /\ pc["main"] = "idle"
    /\ mainEvt' = "Exit"
    /\ pc' = [pc EXCEPT !["main"] = "lock"]
    /\ calls' = [calls EXCEPT !["Exit"] = @ + 1]
    /\ UNCHANGED <<hostEnv, cfg, script, phase, managed, sidecar, mutex, child,
                   windows_open, exit_requested, kills, proc, childEnv, rx, rxClosed,
                   emitted, consumed, diag>>

\* The callback returns from Exit: the application process ends, its threads with it.
run_Exit_return ==
    /\ phase = "exiting"
    /\ pc["main"] = "ret"
    /\ mainEvt = "Exit"
    /\ phase' = "exited"
    /\ mainEvt' = "none"
    /\ pc' = [pc EXCEPT !["main"] = "idle"]
    /\ UNCHANGED <<hostEnv, cfg, script, managed, sidecar, mutex, child, windows_open,
                   exit_requested, calls, kills, proc, childEnv, rx, rxClosed, emitted,
                   consumed, diag>>

----------------------------------------------------------------------------
(* The child process and the stream spawn() returns *)

\* The child writes its next line (or the stream reports an error or another event).
ChildEmit ==
    /\ AppAlive
    /\ proc.st = "running"
    /\ script # <<>>
    /\ rx' = Append(rx, Head(script))
    /\ emitted' = Append(emitted, Head(script))
    /\ script' = Tail(script)
    /\ UNCHANGED <<hostEnv, cfg, phase, managed, sidecar, mutex, pc, child, mainEvt,
                   windows_open, exit_requested, calls, kills, proc, childEnv, rxClosed,
                   consumed, diag>>

\* Sampled exit statuses of a child that ends by itself: success and failure.
ExitCodes == {0, 1}

\* The child exits by itself, with a status code.
ChildExit ==
    /\ AppAlive
    /\ proc.st = "running"
    /\ \E code \in ExitCodes : proc' = Dead(code, -1)
    /\ UNCHANGED <<hostEnv, cfg, script, phase, managed, sidecar, mutex, pc, child,
                   mainEvt, windows_open, exit_requested, calls, kills, childEnv, rx,
                   rxClosed, emitted, consumed, diag>>

\* The stream's last event once the process is gone, after which the stream closes.
StreamTerminated ==
    /\ AppAlive
    /\ proc.st = "dead"
    /\ ~rxClosed
    /\ rx' = Append(rx, Terminated(proc.code, proc.signal))
    /\ emitted' = Append(emitted, Terminated(proc.code, proc.signal))
    /\ rxClosed' = TRUE
    /\ UNCHANGED <<hostEnv, cfg, script, phase, managed, sidecar, mutex, pc, child,
                   mainEvt, windows_open, exit_requested, calls, kills, proc, childEnv,
                   consumed, diag>>

\* Waiting for the process failed: the stream reports the error and closes with no
\* Terminated event.
StreamWaitError ==
    /\ AppAlive
    /\ proc.st = "dead"
    /\ ~rxClosed
    /\ rx' = Append(rx, Error(<<119>>))
    /\ emitted' = Append(emitted, Error(<<119>>))
    /\ rxClosed' = TRUE
    /\ UNCHANGED <<hostEnv, cfg, script, phase, managed, sidecar, mutex, pc, child,
                   mainEvt, windows_open, exit_requested, calls, kills, proc, childEnv,
                   consumed, diag>>

----------------------------------------------------------------------------
(* Output Drain Loop: the task given to tauri::async_runtime::spawn *)

\* String::from_utf8_lossy on the sampled bytes: ASCII decodes to itself, a byte that
\* can start no UTF-8 sequence becomes U+FFFD.
from_utf8_lossy(bytes) ==
    [i \in 1..Len(bytes) |-> IF bytes[i] < 128 THEN bytes[i] ELSE REPLACEMENT_CHARACTER]

\* Mutant: only one trailing terminator is removed.
trim_one_terminator(s) ==
    IF s # <<>> /\ s[Len(s)] \in {CR, LF} THEN SubSeq(s, 1, Len(s) - 1) ELSE s

\* str::trim_end_matches(&['\r', '\n'][..])
RECURSIVE trim_end_matches(_)
trim_end_matches(s) ==
    IF s # <<>> /\ s[Len(s)] \in {CR, LF}
    THEN trim_end_matches(SubSeq(s, 1, Len(s) - 1))
    ELSE s

Record(stream, tag, text) == [stream |-> stream, tag |-> tag, text |-> text]

\* rx.recv().await returned Some(event), one arm of the match per action.
Recv(kind) ==
    /\ AppAlive
    /\ pc["drain"] = "recv"
    /\ rx # <<>>
    /\ Head(rx).kind = kind
    /\ rx' = Tail(rx)
    /\ consumed' = Append(consumed, Head(rx))

DrainStdout ==
    /\ Recv("Stdout")
    /\ diag' = Append(diag, Record("stdout", "[sidecar stdout]",
                                   trim_end_matches(from_utf8_lossy(Head(rx).data))))
    /\ UNCHANGED <<hostEnv, cfg, script, phase, managed, sidecar, mutex, pc, child,
                   mainEvt, windows_open, exit_requested, calls, kills, proc, childEnv,
                   rxClosed, emitted>>

DrainStderr ==
    /\ Recv("Stderr")
    /\ diag' = Append(diag, Record("stderr", "[sidecar stderr]",
                                   trim_end_matches(from_utf8_lossy(Head(rx).data))))
    /\ UNCHANGED <<hostEnv, cfg, script, phase, managed, sidecar, mutex, pc, child,
                   mainEvt, windows_open, exit_requested, calls, kills, proc, childEnv,
                   rxClosed, emitted>>

\* Mutant: a launch error is treated like a termination.
DrainError_tears_down ==
    /\ Recv("Error")
    /\ diag' = Append(diag, Record("stderr", "[sidecar error]", Head(rx).data))
    /\ pc' = [pc EXCEPT !["drain"] = "lock"]
    /\ calls' = [calls EXCEPT !["Terminated"] = @ + 1]
    /\ UNCHANGED <<hostEnv, cfg, script, phase, managed, sidecar, mutex, child, mainEvt,
                   windows_open, exit_requested, kills, proc, childEnv, rxClosed,
                   emitted>>

DrainError ==
    /\ Recv("Error")
    /\ diag' = Append(diag, Record("stderr", "[sidecar error]", Head(rx).data))
    /\ UNCHANGED <<hostEnv, cfg, script, phase, managed, sidecar, mutex, pc, child,
                   mainEvt, windows_open, exit_requested, calls, kills, proc, childEnv,
                   rxClosed, emitted>>

\* `_ => {}`
DrainOther ==
    /\ Recv("Other")
    /\ UNCHANGED <<hostEnv, cfg, script, phase, managed, sidecar, mutex, pc, child,
                   mainEvt, windows_open, exit_requested, calls, kills, proc, childEnv,
                   rxClosed, emitted, diag>>

\* Mutant: Terminated is logged and the loop breaks without calling kill_sidecar.
DrainTerminated_no_kill ==
    /\ Recv("Terminated")
    /\ diag' = Append(diag, Record("stderr", "[sidecar terminated]", Head(rx).data))
    /\ pc' = [pc EXCEPT !["drain"] = "ret"]
    /\ UNCHANGED <<hostEnv, cfg, script, phase, managed, sidecar, mutex, child, mainEvt,
                   windows_open, exit_requested, calls, kills, proc, childEnv, rxClosed,
                   emitted>>

\* CommandEvent::Terminated: log the payload, then kill_sidecar(&app_handle) ..
DrainTerminated ==
    /\ Recv("Terminated")
    /\ diag' = Append(diag, Record("stderr", "[sidecar terminated]", Head(rx).data))
    /\ pc' = [pc EXCEPT !["drain"] = "lock"]
    /\ calls' = [calls EXCEPT !["Terminated"] = @ + 1]
    /\ UNCHANGED <<hostEnv, cfg, script, phase, managed, sidecar, mutex, child, mainEvt,
                   windows_open, exit_requested, kills, proc, childEnv, rxClosed,
                   emitted>>

\* .. then `break`: the task ends and rx is dropped.
DrainBreak ==
    /\ AppAlive
    /\ pc["drain"] = "ret"
    /\ pc' = [pc EXCEPT !["drain"] = "done"]
    /\ UNCHANGED <<hostEnv, cfg, script, phase, managed, sidecar, mutex, child, mainEvt,
                   windows_open, exit_requested, calls, kills, proc, childEnv, rx,
                   rxClosed, emitted, consumed, diag>>

\* Mutant: the loop ends as soon as the stream is closed, with events still queued.
DrainClosed_early ==
    /\ AppAlive
    /\ pc["drain"] = "recv"
    /\ rxClosed
    /\ pc' = [pc EXCEPT !["drain"] = "done"]
    /\ UNCHANGED <<hostEnv, cfg, script, phase, managed, sidecar, mutex, child, mainEvt,
                   windows_open, exit_requested, calls, kills, proc, childEnv, rx,
                   rxClosed, emitted, consumed, diag>>

\* Mutant: the loop does not end on None and polls the closed stream again.
DrainClosed_polls_again ==
    /\ AppAlive
    /\ pc["drain"] = "recv"
    /\ rx = <<>>
    /\ rxClosed
    /\ UNCHANGED vars

\* rx.recv().await returned None: the stream is closed and empty, the loop ends.
DrainClosed ==
    /\ AppAlive
    /\ pc["drain"] = "recv"
    /\ rx = <<>>
    /\ rxClosed
    /\ pc' = [pc EXCEPT !["drain"] = "done"]
    /\ UNCHANGED <<hostEnv, cfg, script, phase, managed, sidecar, mutex, child, mainEvt,
                   windows_open, exit_requested, calls, kills, proc, childEnv, rx,
                   rxClosed, emitted, consumed, diag>>

----------------------------------------------------------------------------

Next ==
    \/ SetupFails
    \/ SetupOk
    \/ \E t \in Threads : Lock(t)
    \/ \E t \in Threads : Take(t)
    \/ \E t \in Threads : Kill(t)
    \/ \E t \in Threads : Unlock(t)
    \/ on_window_event
    \/ on_window_event_exit
    \/ run_ExitRequested
    \/ run_ExitRequested_return
    \/ run_Exit
    \/ run_Exit_return
    \/ ChildEmit
    \/ ChildExit
    \/ StreamTerminated
    \/ StreamWaitError
    \/ DrainStdout
    \/ DrainStderr
    \/ DrainError
    \/ DrainOther
    \/ DrainTerminated
    \/ DrainBreak
    \/ DrainClosed

Spec == Init /\ [][Next]_vars

SpecEnv == InitEnv /\ [][Next]_vars

SpecDrain == InitDrain /\ [][Next]_vars

\* Scheduling: a thread inside kill_sidecar keeps running (the lock is granted once
\* it is free, the OS kill call returns), a handler that was entered returns, the
\* event loop delivers Exit once the exit was accepted, the stream reports the end of
\* a process that is gone, and the drain task is polled while an event or the end of
\* the stream is there for it. Nothing obliges the user to close the window, the host
\* to request an exit, or the child to write or to exit.
Fairness ==
    /\ \A t \in Threads :
          WF_vars(Lock(t)) /\ WF_vars(Take(t)) /\ WF_vars(Kill(t)) /\ WF_vars(Unlock(t))
    /\ WF_vars(on_window_event_exit)
    /\ WF_vars(run_ExitRequested_return)
    /\ WF_vars(run_Exit)
    /\ WF_vars(run_Exit_return)
    /\ WF_vars(StreamTerminated \/ StreamWaitError)
    /\ WF_vars(DrainStdout)
    /\ WF_vars(DrainStderr)
    /\ WF_vars(DrainError)
    /\ WF_vars(DrainOther)
    /\ WF_vars(DrainTerminated)
    /\ WF_vars(DrainBreak)
    /\ WF_vars(DrainClosed)

SpecLive == Init /\ [][Next]_vars /\ Fairness

----------------------------------------------------------------------------
(* Properties *)

Launched == phase \in {"running", "exiting", "exited"}
Absent == sidecar = <<>>
Holders == {t \in Threads : child[t] # <<>>}

\* C1: however the kill_sidecar invocations of window-close, exit-requested, exit and
\* Terminated interleave, at most one of them takes the handle and issues a kill
\* request, and the shared state is absent when the application has exited.
C1_AtMostOneKill ==
    /\ Cardinality(Holders) + Len(kills) <= 1
    /\ \A i \in 1..Len(kills) : kills[i].child = <<ChildPid>>
    /\ phase = "exited" => Absent /\ Holders = {}

\* All four triggers have invoked kill_sidecar and there is one kill request.
C1_Witness ==
    /\ phase = "exited"
    /\ \A tr \in Triggers : calls[tr] >= 1
    /\ Len(kills) = 1

\* C2: a kill_sidecar invocation that finds the state absent skips the kill block:
\* no kill request, the state stays absent, the process is untouched, and the
\* invocation goes on to release the guard and return.
C2_AbsentIsNoOp ==
    [][\A t \in Threads :
          (pc[t] = "take" /\ Absent /\ pc'[t] # "take")
              => /\ pc'[t] = "unlock"
                 /\ sidecar' = <<>>
                 /\ child'[t] = <<>>
                 /\ kills' = kills
                 /\ proc' = proc]_vars

\* An invocation is about to return having found the state absent, the only kill
\* request having come from an earlier invocation.
C2_Witness ==
    \E t \in Threads :
        /\ pc[t] = "ret"
        /\ Absent
        /\ Len(kills) = 1
        /\ kills[1].by # Trigger(t)

\* C3: when kill_sidecar has returned in the window-close handler, and from then on
\* through the exit-requested and exit events the handler's exit request raises, the
\* state is absent and exactly one kill request has been recorded.
C3_WindowCloseKillsOnce ==
    ((pc["main"] = "ret" /\ mainEvt = "CloseRequested") \/ exit_requested)
        => Absent /\ Len(kills) = 1

\* The window-close handler found the state present and killed; exit-requested and
\* exit were handled after it.
C3_Witness ==
    /\ phase = "exited"
    /\ Len(kills) = 1
    /\ kills[1].by = "CloseRequested"
    /\ calls["ExitRequested"] = 1
    /\ calls["Exit"] = 1

\* C4: each of window-close-requested, exit-requested and exit invokes kill_sidecar,
\* the state is absent once kill_sidecar has returned in any of these handlers, and the
\* application never ends its Exit event with the state present.
C4_LifetimeBound ==
    /\ (pc["main"] = "ret" \/ exit_requested \/ phase \in {"exiting", "exited"}) => Absent
    /\ mainEvt # "none" => calls[mainEvt] >= 1
    /\ exit_requested => calls["CloseRequested"] >= 1
    /\ phase \in {"exiting", "exited"} => calls["ExitRequested"] >= 1
    /\ phase = "exited" => calls["Exit"] >= 1

\* The application exited with no window-close event; the exit-requested handler
\* killed the child.
C4_Witness ==
    /\ phase = "exited"
    /\ calls["CloseRequested"] = 0
    /\ Len(kills) = 1
    /\ kills[1].by = "ExitRequested"

\* C5: when resolving or spawning the sidecar fails, setup ends in failure, no handle
\* is stored, no process and no drain task exist, and nothing runs afterwards.
C5_LaunchFailure ==
    (~(cfg.sidecar /\ cfg.spawn) /\ phase # "setup")
        => /\ phase = "aborted"
           /\ ~managed
           /\ Absent
           /\ proc.st = "none"
           /\ pc["drain"] = "unspawned"
           /\ kills = <<>>
           /\ diag = <<>>

\* Setup failed at spawn() after the binary resolved.
C5_Witness == phase = "aborted" /\ cfg.sidecar /\ ~cfg.spawn

IsTerminator(c) == c \in {CR, LF}

\* t is s without its trailing run of \r and \n.
IsTrimmed(t, s) ==
    /\ Len(t) <= Len(s)
    /\ t = SubSeq(s, 1, Len(t))
    /\ \A j \in (Len(t) + 1)..Len(s) : IsTerminator(s[j])
    /\ t = <<>> \/ ~IsTerminator(t[Len(t)])

Logged == SelectSeq(consumed, LAMBDA e : e.kind # "Other")

\* C6: the drain loop takes the events in emission order; it has printed one record
\* per line taken, in the same order and trimmed of trailing \r and \n; it takes
\* Terminated at most once, calls kill_sidecar exactly once for it, and takes no
\* event after it.
C6_DrainInOrder ==
    /\ Len(consumed) <= Len(emitted)
    /\ consumed = SubSeq(emitted, 1, Len(consumed))
    /\ rx = SubSeq(emitted, Len(consumed) + 1, Len(emitted))
    /\ Len(diag) = Len(Logged)
    /\ \A i \in 1..Len(Logged) :
          /\ Logged[i].kind = "Stdout" =>
                diag[i].stream = "stdout" /\ diag[i].tag = "[sidecar stdout]"
          /\ Logged[i].kind = "Stderr" =>
                diag[i].stream = "stderr" /\ diag[i].tag = "[sidecar stderr]"
          /\ Logged[i].kind \in {"Stdout", "Stderr"} =>
                IsTrimmed(diag[i].text,
                          [j \in 1..Len(Logged[i].data) |->
                              IF Logged[i].data[j] >= 128 THEN REPLACEMENT_CHARACTER
                              ELSE Logged[i].data[j]])
    /\ \A i \in 1..Len(consumed) : consumed[i].kind = "Terminated" => i = Len(consumed)
    /\ calls["Terminated"] =
          Cardinality({i \in 1..Len(consumed) : consumed[i].kind = "Terminated"})
    /\ (consumed # <<>> /\ consumed[Len(consumed)].kind = "Terminated")
          => pc["drain"] \in {"lock", "take", "kill", "unlock", "ret", "done"}

\* The scenario [Stdout("a"), Stderr("b\r\n"), Terminated]: records "a" and "b", one
\* kill_sidecar call from the loop, the loop ended.
C6_Witness ==
    /\ pc["drain"] = "done"
    /\ Len(consumed) = 3
    /\ consumed[1] = Stdout(<<97>>)
    /\ consumed[2] = Stderr(<<98, CR, LF>>)
    /\ consumed[3].kind = "Terminated"
    /\ diag[1] = Record("stdout", "[sidecar stdout]", <<97>>)
    /\ diag[2] = Record("stderr", "[sidecar stderr]", <<98>>)
    /\ calls["Terminated"] = 1

\* C7: the slot never holds more than one handle; it goes from absent to present only
\* in setup's launch and from present to absent only when a kill_sidecar invocation
\* holding the guard takes the handle; once absent after the launch it stays absent.
C7_SlotTransitions ==
    /\ [](Len(sidecar) <= 1)
    /\ [][/\ sidecar' # sidecar =>
               \/ /\ sidecar = <<>>
                  /\ sidecar' = <<ChildPid>>
                  /\ phase = "setup"
                  /\ phase' = "running"
                  /\ ~managed
               \/ /\ sidecar = <<ChildPid>>
                  /\ sidecar' = <<>>
                  /\ \E t \in Threads :
                        /\ pc[t] = "take"
                        /\ mutex = t
                        /\ pc'[t] = "kill"
                        /\ child'[t] = sidecar
          /\ (managed /\ sidecar = <<>>) => sidecar' = <<>>]_vars

\* The slot was filled by the launch and emptied by a kill whose request failed.
C7_Witness ==
    /\ managed
    /\ Absent
    /\ Len(kills) = 1
    /\ proc.st = "running"
    /\ phase = "exited"

\* C8 (as claimed): the child's TIPTUNE_LOG_LEVEL is INFO when the host environment
\* has none, and is the host's value, unchanged, whenever the host has one.
C8_LogLevelClaim ==
    Launched =>
        /\ hostEnv["TIPTUNE_LOG_LEVEL"].kind = "unset"
              => childEnv["TIPTUNE_LOG_LEVEL"] = Unicode(<<"INFO">>)
        /\ hostEnv["TIPTUNE_LOG_LEVEL"].kind # "unset"
              => childEnv["TIPTUNE_LOG_LEVEL"] = hostEnv["TIPTUNE_LOG_LEVEL"]

\* C9 (as claimed): the child's TIPTUNE_DEFAULT_LOG_PATH is <dir>/tiptune-sidecar.log
\* when the host has no override and the directory resolves, is the host's value
\* whenever the host has one, and is not set when there is neither.
C9_LogPathClaim ==
    Launched =>
        /\ (hostEnv["TIPTUNE_DEFAULT_LOG_PATH"].kind = "unset" /\ cfg.app_data_dir # <<>>)
              => childEnv["TIPTUNE_DEFAULT_LOG_PATH"]
                    = Unicode(<<"appdata", "/", "TipTune", "/", "tiptune-sidecar.log">>)
        /\ hostEnv["TIPTUNE_DEFAULT_LOG_PATH"].kind # "unset"
              => childEnv["TIPTUNE_DEFAULT_LOG_PATH"] = hostEnv["TIPTUNE_DEFAULT_LOG_PATH"]
        /\ (hostEnv["TIPTUNE_DEFAULT_LOG_PATH"].kind = "unset" /\ cfg.app_data_dir = <<>>)
              => childEnv["TIPTUNE_DEFAULT_LOG_PATH"] = Unset

\* C10 (as claimed): the guard of the SidecarState mutex is never held while the kill
\* request is in progress.
C10_LockFreeDuringKill ==
    \A t \in Threads : pc[t] = "kill" => mutex # t

\* C11 (as claimed): when the host has no TIPTUNE_DEFAULT_LOG_PATH, the app-data
\* directory resolves and creating it fails, setup still succeeds and the child's
\* TIPTUNE_DEFAULT_LOG_PATH is not set.
C11_DirCreateFailureClaim ==
    (/\ phase # "setup"
     /\ cfg.sidecar /\ cfg.spawn
     /\ hostEnv["TIPTUNE_DEFAULT_LOG_PATH"].kind = "unset"
     /\ cfg.app_data_dir # <<>>
     /\ ~cfg.create_dir_all)
        => Launched /\ childEnv["TIPTUNE_DEFAULT_LOG_PATH"] = Unset

\* C12: a kill request that fails (the process stays as it was) is swallowed:
\* kill_sidecar goes on to drop the guard and return exactly as after a kill that took
\* effect, the state is absent afterwards, and no later invocation issues another kill
\* request.
C12_KillFailureSwallowed ==
    /\ [][\A t \in Threads :
             (pc[t] = "kill" /\ pc'[t] # "kill")
                 => /\ pc'[t] = "unlock"
                    /\ sidecar' = <<>>
                    /\ child'[t] = <<>>
                    /\ Len(kills') = Len(kills) + 1]_vars
    /\ [][Len(kills) >= 1 => kills' = kills]_vars
    /\ [](\A t \in Threads :
             pc[t] \in {"idle", "unspawned", "recv", "lock", "take", "kill", "unlock",
                        "ret", "done"})

\* The one kill request failed and left the process running; a later invocation has
\* returned without issuing another, and the application has gone on to exit.
C12_Witness ==
    /\ proc.st = "running"
    /\ Len(kills) = 1
    /\ Absent
    /\ calls[kills[1].by] = 1
    /\ \E tr \in Triggers \ {kills[1].by} : calls[tr] >= 1
    /\ pc["main"] = "ret"
    /\ mainEvt = "Exit"

Last(s) == s[Len(s)]

\* C13: taking a Stdout, Stderr, Error or other event leaves the shared state, the
\* guard and the kill requests as they were and the loop goes on reading; the drain
\* task calls kill_sidecar only in the step that takes a Terminated event.
C13_DrainFrame ==
    /\ [][(consumed' # consumed /\ Last(consumed').kind # "Terminated")
             => /\ Last(consumed').kind \in {"Stdout", "Stderr", "Error", "Other"}
                /\ sidecar' = sidecar
                /\ mutex' = mutex
                /\ child' = child
                /\ kills' = kills
                /\ calls' = calls
                /\ proc' = proc
                /\ pc'["drain"] = "recv"]_vars
    /\ [][calls'["Terminated"] # calls["Terminated"]
             => /\ consumed' # consumed
                /\ Last(consumed').kind = "Terminated"
                /\ pc'["drain"] = "lock"]_vars
    /\ [](pc["drain"] \in {"lock", "take", "kill", "unlock", "ret"}
             => consumed # <<>> /\ Last(consumed).kind = "Terminated")

\* The loop has taken a launch error and an unrecognised event, the child handle is
\* still in the state and the loop is reading on.
C13_Witness ==
    /\ pc["drain"] = "recv"
    /\ Len(consumed) = 2
    /\ {consumed[1].kind, consumed[2].kind} = {"Error", "Other"}
    /\ sidecar = <<ChildPid>>
    /\ calls = NoCalls

\* C14 (as claimed): the drain loop takes every event put on the stream exactly once
\* and in emission order, and by the end of the application no event that was put on
\* the stream is left untaken.
C14_AllConsumedClaim ==
    /\ Len(consumed) <= Len(emitted)
    /\ consumed = SubSeq(emitted, 1, Len(consumed))
    /\ phase = "exited" => consumed = emitted

\* C14 (amended): the events the drain loop has taken are always the first events put
\* on the stream, in emission order, each once and none skipped; only the loop removes
\* events from the stream; and when the loop has ended by itself every event put on
\* the stream has been taken. Events still queued when the application exits are
\* never taken.
C14_ConsumedInOrder ==
    /\ [](/\ Len(consumed) <= Len(emitted)
          /\ consumed = SubSeq(emitted, 1, Len(consumed))
          /\ rx = SubSeq(emitted, Len(consumed) + 1, Len(emitted))
          /\ pc["drain"] = "done" => (consumed = emitted /\ rx = <<>>))
    /\ [][rx' # rx =>
             \/ /\ Len(emitted') = Len(emitted) + 1
                /\ rx' = Append(rx, Last(emitted'))
                /\ consumed' = consumed
             \/ /\ rx # <<>>
                /\ rx' = Tail(rx)
                /\ consumed' = Append(consumed, Head(rx))
                /\ emitted' = emitted
                /\ pc["drain"] = "recv"]_vars

\* The stream closed after a failed wait; the loop took the child's two events and
\* the error, in order, and ended with nothing queued.
C14_Witness ==
    /\ pc["drain"] = "done"
    /\ Len(emitted) = 3
    /\ consumed = emitted
    /\ Last(consumed) = Error(<<119>>)
    /\ rx = <<>>

\* What the drain loop prints for the Terminated event of the ended process p.
TerminatedRecord(p) == Record("stderr", "[sidecar terminated]", <<p.code, p.signal>>)

\* What it prints when the child ended by itself.
UnsolicitedRecords == {TerminatedRecord(Dead(code, -1)) : code \in ExitCodes}

\* C15 (as claimed): the record printed for a child that ended because a host
\* trigger's kill took effect differs from every record printed for a child that
\* ended by itself.
C15_LoggedDistinctlyClaim ==
    [][\A t \in Threads :
          (/\ pc[t] = "kill"
           /\ pc'[t] = "unlock"
           /\ Trigger(t) # "Terminated"
           /\ proc.st = "running"
           /\ proc'.st = "dead")
              => TerminatedRecord(proc') \notin UnsolicitedRecords]_vars

\* C16: once the child process is gone the drain loop stops, by taking Terminated and
\* breaking or by the stream closing, unless the application itself ends first (there
\* is no cancellation other than that).
C16_DrainStops ==
    (proc.st = "dead") ~> (pc["drain"] = "done" \/ phase = "exited")

\* The loop ended on the closed stream of a child that was killed by the exit-requested
\* handler, without having seen Terminated, while the application is still running.
C16_Witness ==
    /\ pc["drain"] = "done"
    /\ proc = Killed
    /\ calls["Terminated"] = 0
    /\ Len(kills) = 1
    /\ kills[1].by = "ExitRequested"
    /\ phase = "exiting"

\* C17: however the drain task's Terminated handling and the host's handlers
\* interleave, a kill_sidecar invocation that waits for the lock acquires it, and
\* every invocation returns (given that the OS kill call returns); the only
\* invocation that may not return is one of the drain task cut off by the end of the
\* application.
C17_NoDeadlock ==
    /\ (pc["main"] = "lock") ~> (pc["main"] = "take")
    /\ (pc["main"] = "take") ~> (pc["main"] = "ret")
    /\ (pc["drain"] = "lock") ~> (pc["drain"] = "take" \/ phase = "exited")
    /\ (pc["drain"] = "take") ~> (pc["drain"] = "ret" \/ phase = "exited")

\* Both threads are inside kill_sidecar: the drain task holds the guard and is in the
\* kill, the main thread waits for the lock in the window-close handler.
C17_Witness ==
    /\ pc["drain"] = "kill"
    /\ mutex = "drain"
    /\ pc["main"] = "lock"
    /\ mainEvt = "CloseRequested"

\* C18: the window-close handler requests the exit only after its kill_sidecar call
\* has returned with the state absent, so the exit-requested and exit handlers that
\* follow a window close find the state absent and never issue a kill.
C18_KillBeforeExit ==
    /\ [][(~exit_requested /\ exit_requested')
             => /\ pc["main"] = "ret"
                /\ mainEvt = "CloseRequested"
                /\ Absent
                /\ Holders = {}
                /\ mutex # "main"]_vars
    /\ [](exit_requested =>
             /\ Absent
             /\ \A i \in 1..Len(kills) : kills[i].by \notin {"ExitRequested", "Exit"}
             /\ mainEvt \in {"ExitRequested", "Exit"} => pc["main"] # "kill")

\* After a window close that killed the child, the exit-requested handler has found
\* the state absent and is about to release the guard.
C18_Witness ==
    /\ exit_requested
    /\ mainEvt = "ExitRequested"
    /\ pc["main"] = "unlock"
    /\ mutex = "main"
    /\ Len(kills) = 1
    /\ kills[1].by = "CloseRequested"

\* Some kill_sidecar invocation is between its lock() and the end of its kill block.
InProgress == {t \in Threads : pc[t] \in {"lock", "take", "kill"}}

\* The drain loop has consumed Terminated and its kill_sidecar call has returned.
TerminatedHandled ==
    /\ pc["drain"] \in {"ret", "done"}
    /\ consumed # <<>>
    /\ Last(consumed).kind = "Terminated"

\* C19: when the drain loop's kill_sidecar call, made on Terminated, finds the state
\* present it takes the handle and issues one kill request for the pid of the child
\* that has already exited; when a host trigger took the handle first it issues none;
\* and once any trigger's kill_sidecar call has finished there is exactly one kill
\* request for the launched child.
C19_KillAfterSelfTermination ==
    /\ [][/\ (pc["drain"] = "take" /\ pc'["drain"] # "take" /\ ~Absent)
               => /\ child'["drain"] = <<ChildPid>>
                  /\ Absent'
                  /\ pc'["drain"] = "kill"
                  /\ kills' = <<>>
          /\ (pc["drain"] = "kill" /\ pc'["drain"] # "kill")
               => /\ proc.st = "dead"
                  /\ kills' = <<KillRequest(<<ChildPid>>, "Terminated")>>
          /\ (pc["drain"] = "take" /\ pc'["drain"] # "take" /\ Absent)
               => /\ kills' = kills
                  /\ child'["drain"] = <<>>
                  /\ pc'["drain"] = "unlock"
                  /\ Len(kills) = 1
                  /\ kills[1].by # "Terminated"]_vars
    /\ [](/\ \A t \in Threads : pc[t] \in {"unlock", "ret"} => Len(kills) = 1
          /\ TerminatedHandled => Len(kills) = 1
          /\ (InProgress = {} /\ \E tr \in Triggers : calls[tr] >= 1) => Len(kills) = 1)

\* The child exited by itself, the drain loop found the state present and issued the
\* one kill request, and the loop has ended.
C19_Witness ==
    /\ pc["drain"] = "done"
    /\ proc.st = "dead"
    /\ Absent
    /\ Len(kills) = 1
    /\ kills[1].by = "Terminated"
    /\ kills[1].child = <<ChildPid>>

====
